---- MODULE Spec2Model ----
(***************************************************************************)
(* User-group request handlers of zerver/views/user_groups.py.             *)
(*                                                                         *)
(* The state is the store of user groups of the caller's realm (plus one   *)
(* group of another realm, which the caller cannot access).  Every handler *)
(* is an operator from the store and the request's inputs to the store     *)
(* after the request, the response and the external calls issued.  The     *)
(* actions model the handler bodies for a caller that the permission       *)
(* decorators have admitted.                                               *)
(*                                                                         *)
(* Spec      one request at a time, each handler one atomic action.        *)
(* ObservedSpec  the same, with an observer of the sequence add, list,     *)
(*           remove, list.                                                 *)
(* RaceSpec  concurrent executions of add_members_to_group_backend, one    *)
(*           step per store access (no transaction spans them).            *)
(***************************************************************************)
EXTENDS Integers, Sequences, FiniteSets, TLC

VARIABLES groups, last, rt, req

vars == <<groups, last, rt, req>>

----------------------------------------------------------------------------
(* Bounds of the model *)

\* longest list of user ids in a request
MaxLen == 2

\* the users of the caller's realm
RealmUsers == {1, 2}
\* an id that is no user of the caller's realm
ForeignUser == 3
UserIds == RealmUsers \cup {ForeignUser}

\* the ids the store gives to groups of the caller's realm
GroupIds == {1, 2}
\* a group that exists in another realm
ForeignGroup == 3
AllGroupIds == GroupIds \cup {ForeignGroup}

CallerRealm == "realm"
OtherRealm == "other"

Names == {"a", "b"}
Descriptions == {"x", "y"}

IdLists == UNION {[1..n -> UserIds] : n \in 0..MaxLen}

Requests == {"r1", "r2"}

----------------------------------------------------------------------------
(* Values *)

NoGroup == [exists |-> FALSE, realm |-> "", name |-> "", description |-> "", members |-> {}]

Range(s) == {s[i] : i \in 1..Len(s)}

Min(S) == CHOOSE x \in S : \A y \in S : x <= y

\* the ids of S in increasing order
RECURSIVE SortedSeq(_)
SortedSeq(S) == IF S = {} THEN <<>> ELSE <<Min(S)>> \o SortedSeq(S \ {Min(S)})

\* json_success(request) / a raised JsonableError, with the calls issued so far
Ok == [kind |-> "ok", arg |-> 0]
Err(kind, arg) == [kind |-> kind, arg |-> arg]

Result(g, resp, calls, data) == [groups |-> g, resp |-> resp, calls |-> calls, data |-> data]

----------------------------------------------------------------------------
(* Collaborators of the handlers: the store and the resolvers *)

\* zerver.lib.users.user_ids_to_users: the user records of the ids, each user
\* once, or the first id that is no user of the realm
RECURSIVE Dedup(_)
Dedup(ids) ==
    IF ids = <<>> THEN <<>>
    ELSE LET front == Dedup(SubSeq(ids, 1, Len(ids) - 1))
             x == ids[Len(ids)]
         IN IF x \in Range(front) THEN front ELSE Append(front, x)

user_ids_to_users(ids) ==
    LET missed == {i \in 1..Len(ids) : ids[i] \notin RealmUsers}
    IN IF missed # {}
       THEN [ok |-> FALSE, bad |-> ids[Min(missed)], users |-> <<>>]
       ELSE [ok |-> TRUE, bad |-> 0, users |-> Dedup(ids)]

\* zerver.lib.user_groups.access_user_group_by_id: the group exists and belongs
\* to the caller's realm
access_user_group_by_id(g, gid) ==
    g[gid].exists /\ g[gid].realm = CallerRealm

\* zerver.lib.user_groups.get_direct_memberships_of_users
get_direct_memberships_of_users(user_group, user_profiles) ==
    {u \in Range(user_profiles) : u \in user_group.members}

\* zerver.lib.user_groups.get_user_group_direct_members
get_user_group_direct_members(user_group) == user_group.members

\* zerver.actions.user_groups.bulk_add_members_to_user_group
bulk_add_members_to_user_group(g, gid, ids) ==
    [g EXCEPT ![gid].members = @ \cup Range(ids)]

\* zerver.actions.user_groups.remove_members_from_user_group
remove_members_from_user_group(g, gid, ids) ==
    [g EXCEPT ![gid].members = @ \ Range(ids)]

\* a group of the caller's realm other than `except` bears the name
NameTaken(g, name, except) ==
    \E id \in AllGroupIds :
        /\ id # except
        /\ g[id].exists
        /\ g[id].realm = CallerRealm
        /\ g[id].name = name

\* zerver.actions.user_groups.do_update_user_group_name
do_update_user_group_name(g, gid, name) ==
    IF NameTaken(g, name, gid)
    THEN [ok |-> FALSE, groups |-> g]
    ELSE [ok |-> TRUE, groups |-> [g EXCEPT ![gid].name = name]]

\* zerver.actions.user_groups.do_update_user_group_description
do_update_user_group_description(g, gid, description) ==
    [g EXCEPT ![gid].description = description]

FreeIds(g) == {id \in GroupIds : ~g[id].exists}

\* zerver.actions.user_groups.check_add_user_group: the new group takes the
\* next id of the store
check_add_user_group(g, name, user_profiles, description) ==
    IF NameTaken(g, name, 0)
    THEN [ok |-> FALSE, groups |-> g]
    ELSE [ok |-> TRUE,
          groups |-> [g EXCEPT ![Min(FreeIds(g))] =
                         [exists |-> TRUE, realm |-> CallerRealm, name |-> name,
                          description |-> description,
                          members |-> Range(user_profiles)]]]

\* zerver.actions.user_groups.check_delete_user_group
check_delete_user_group(g, gid) ==
    IF access_user_group_by_id(g, gid)
    THEN [ok |-> TRUE, groups |-> [g EXCEPT ![gid] = NoGroup]]
    ELSE [ok |-> FALSE, groups |-> g]

\* zerver.lib.user_groups.user_groups_in_realm_serialized
RECURSIVE SerializeFrom(_, _)
SerializeFrom(g, id) ==
    IF id > ForeignGroup THEN <<>>
    ELSE IF access_user_group_by_id(g, id)
         THEN <<[id |-> id, name |-> g[id].name, description |-> g[id].description,
                 members |-> SortedSeq(g[id].members)]>> \o SerializeFrom(g, id + 1)
         ELSE SerializeFrom(g, id + 1)

user_groups_in_realm_serialized(g) == SerializeFrom(g, 1)

----------------------------------------------------------------------------
(* The handlers *)

\* variant: ids that are no users of the realm are dropped, not refused
add_user_group_drops_invalid(g, name, members, description) ==
    LET valid == SelectSeq(members, LAMBDA id : id \in RealmUsers)
        c == check_add_user_group(g, name, Dedup(valid), description)
    IN IF c.ok
       THEN Result(c.groups, Ok, <<"check_add_user_group">>, <<>>)
       ELSE Result(g, Err("duplicate_name", 0), <<"check_add_user_group">>, <<>>)

add_user_group(g, name, members, description) ==
    LET r == user_ids_to_users(members)
    IN IF ~r.ok THEN Result(g, Err("invalid_user", r.bad), <<>>, <<>>)
       ELSE LET c == check_add_user_group(g, name, r.users, description)
            IN IF c.ok
               THEN Result(c.groups, Ok, <<"check_add_user_group">>, <<>>)
               ELSE Result(g, Err("duplicate_name", 0), <<"check_add_user_group">>, <<>>)

get_user_group(g) ==
    Result(g, Ok, <<>>, user_groups_in_realm_serialized(g))

\* variant: the group is looked up before the inputs are checked
edit_looks_up_first(g, user_group_id, name, description) ==
    IF ~access_user_group_by_id(g, user_group_id)
    THEN Result(g, Err("group_not_found", user_group_id), <<>>, <<>>)
    ELSE IF name = "" /\ description = ""
    THEN Result(g, Err("no_new_data", 0), <<>>, <<>>)
    ELSE LET n == do_update_user_group_name(g, user_group_id, name)
         IN IF ~n.ok
            THEN Result(g, Err("duplicate_name", 0), <<"do_update_user_group_name">>, <<>>)
            ELSE Result(do_update_user_group_description(n.groups, user_group_id,
                                                         description),
                        Ok, <<"do_update_user_group_name",
                              "do_update_user_group_description">>, <<>>)

\* variant: the name is written without comparing it with the current one
edit_always_renames(g, user_group_id, name, description) ==
    IF name = "" /\ description = ""
    THEN Result(g, Err("no_new_data", 0), <<>>, <<>>)
    ELSE IF ~access_user_group_by_id(g, user_group_id)
    THEN Result(g, Err("group_not_found", user_group_id), <<>>, <<>>)
    ELSE LET user_group == g[user_group_id]
             n == do_update_user_group_name(g, user_group_id, name)
             calls1 == <<"do_update_user_group_name">>
         IN IF ~n.ok
            THEN Result(g, Err("duplicate_name", 0), calls1, <<>>)
            ELSE IF description # user_group.description
            THEN Result(do_update_user_group_description(n.groups, user_group_id,
                                                         description),
                        Ok, Append(calls1, "do_update_user_group_description"), <<>>)
            ELSE Result(n.groups, Ok, calls1, <<>>)

edit_user_group(g, user_group_id, name, description) ==
    IF name = "" /\ description = ""
    THEN Result(g, Err("no_new_data", 0), <<>>, <<>>)
    ELSE IF ~access_user_group_by_id(g, user_group_id)
    THEN Result(g, Err("group_not_found", user_group_id), <<>>, <<>>)
    ELSE LET user_group == g[user_group_id]
             renames == name # user_group.name
             n == IF renames
                  THEN do_update_user_group_name(g, user_group_id, name)
                  ELSE [ok |-> TRUE, groups |-> g]
             calls1 == IF renames THEN <<"do_update_user_group_name">> ELSE <<>>
         IN IF ~n.ok
            THEN Result(g, Err("duplicate_name", 0), calls1, <<>>)
            ELSE IF description # user_group.description
            THEN Result(do_update_user_group_description(n.groups, user_group_id,
                                                         description),
                        Ok, Append(calls1, "do_update_user_group_description"), <<>>)
            ELSE Result(n.groups, Ok, calls1, <<>>)

delete_user_group(g, user_group_id) ==
    LET c == check_delete_user_group(g, user_group_id)
    IN IF c.ok
       THEN Result(c.groups, Ok, <<"check_delete_user_group">>, <<>>)
       ELSE Result(g, Err("group_not_found", user_group_id),
                   <<"check_delete_user_group">>, <<>>)

\* variant: only the first user is checked
first_existing_member_head_only(user_profiles, existing_member_ids) ==
    IF user_profiles # <<>> /\ user_profiles[1] \in existing_member_ids
    THEN user_profiles[1] ELSE 0

\* the first user of user_profiles that is in existing_member_ids, 0 if none
first_existing_member(user_profiles, existing_member_ids) ==
    LET hits == {i \in 1..Len(user_profiles) : user_profiles[i] \in existing_member_ids}
    IN IF hits = {} THEN 0 ELSE user_profiles[Min(hits)]

\* variant: each user is added as the loop passes it, before the check of the
\* next one
add_members_one_by_one(g, user_group_id, members) ==
    IF members = <<>> THEN Result(g, Ok, <<>>, <<>>)
    ELSE IF ~access_user_group_by_id(g, user_group_id)
    THEN Result(g, Err("group_not_found", user_group_id), <<>>, <<>>)
    ELSE LET r == user_ids_to_users(members)
         IN IF ~r.ok THEN Result(g, Err("invalid_user", r.bad), <<>>, <<>>)
            ELSE LET existing_member_ids ==
                         get_direct_memberships_of_users(g[user_group_id], r.users)
                     hits == {i \in 1..Len(r.users) : r.users[i] \in existing_member_ids}
                     passed == IF hits = {} THEN r.users
                               ELSE SubSeq(r.users, 1, Min(hits) - 1)
                     calls == IF passed = <<>> THEN <<>>
                              ELSE <<"bulk_add_members_to_user_group">>
                     store == bulk_add_members_to_user_group(g, user_group_id, passed)
                 IN IF hits # {}
                    THEN Result(store, Err("already_member", r.users[Min(hits)]),
                                calls, <<>>)
                    ELSE Result(store, Ok, calls, <<>>)

add_members_to_group_backend(g, user_group_id, members) ==
    IF members = <<>> THEN Result(g, Ok, <<>>, <<>>)
    ELSE IF ~access_user_group_by_id(g, user_group_id)
    THEN Result(g, Err("group_not_found", user_group_id), <<>>, <<>>)
    ELSE LET r == user_ids_to_users(members)
         IN IF ~r.ok THEN Result(g, Err("invalid_user", r.bad), <<>>, <<>>)
            ELSE LET existing_member_ids ==
                         get_direct_memberships_of_users(g[user_group_id], r.users)
                     offender == first_existing_member(r.users, existing_member_ids)
                 IN IF offender # 0
                    THEN Result(g, Err("already_member", offender), <<>>, <<>>)
                    ELSE Result(bulk_add_members_to_user_group(g, user_group_id, r.users),
                                Ok, <<"bulk_add_members_to_user_group">>, <<>>)

\* the first id of members that is not in group_member_ids, 0 if none
first_non_member(members, group_member_ids) ==
    LET misses == {i \in 1..Len(members) : members[i] \notin group_member_ids}
    IN IF misses = {} THEN 0 ELSE members[Min(misses)]

\* variant: only the first id is checked
remove_members_head_checked(g, user_group_id, members) ==
    IF members = <<>> THEN Result(g, Ok, <<>>, <<>>)
    ELSE LET r == user_ids_to_users(members)
         IN IF ~r.ok THEN Result(g, Err("invalid_user", r.bad), <<>>, <<>>)
            ELSE IF ~access_user_group_by_id(g, user_group_id)
            THEN Result(g, Err("group_not_found", user_group_id), <<>>, <<>>)
            ELSE IF members[1] \notin get_user_group_direct_members(g[user_group_id])
            THEN Result(g, Err("no_such_member", members[1]), <<>>, <<>>)
            ELSE Result(remove_members_from_user_group(g, user_group_id, r.users),
                        Ok, <<"remove_members_from_user_group">>, <<>>)

\* variant: the checks pass and the removal is never issued
remove_members_never_removes(g, user_group_id, members) ==
    IF members = <<>> THEN Result(g, Ok, <<>>, <<>>)
    ELSE LET r == user_ids_to_users(members)
         IN IF ~r.ok THEN Result(g, Err("invalid_user", r.bad), <<>>, <<>>)
            ELSE IF ~access_user_group_by_id(g, user_group_id)
            THEN Result(g, Err("group_not_found", user_group_id), <<>>, <<>>)
            ELSE LET offender ==
                         first_non_member(members,
                                          get_user_group_direct_members(g[user_group_id]))
                 IN IF offender # 0
                    THEN Result(g, Err("no_such_member", offender), <<>>, <<>>)
                    ELSE Result(g, Ok, <<>>, <<>>)

remove_members_from_group_backend(g, user_group_id, members) ==
    IF members = <<>> THEN Result(g, Ok, <<>>, <<>>)
    ELSE LET r == user_ids_to_users(members)
         IN IF ~r.ok THEN Result(g, Err("invalid_user", r.bad), <<>>, <<>>)
            ELSE IF ~access_user_group_by_id(g, user_group_id)
            THEN Result(g, Err("group_not_found", user_group_id), <<>>, <<>>)
            ELSE LET group_member_ids == get_user_group_direct_members(g[user_group_id])
                     offender == first_non_member(members, group_member_ids)
                 IN IF offender # 0
                    THEN Result(g, Err("no_such_member", offender), <<>>, <<>>)
                    ELSE Result(remove_members_from_user_group(g, user_group_id, r.users),
                                Ok, <<"remove_members_from_user_group">>, <<>>)

\* lines 98-105: a thunk is a deferred call of one of the two sub-operations
Thunk(view, user_group_id, members) ==
    [view |-> view, user_group_id |-> user_group_id, members |-> members]

call_thunk(thunk, g) ==
    IF thunk.view = "add"
    THEN add_members_to_group_backend(g, thunk.user_group_id, thunk.members)
    ELSE remove_members_from_group_backend(g, thunk.user_group_id, thunk.members)

\* zerver.views.streams.compose_views: the thunks run in sequence on the store
\* and their payloads are merged; the first that fails ends the request, what
\* ran before it stays applied
RECURSIVE compose_views(_, _)
compose_views(thunks, g) ==
    IF thunks = <<>> THEN Result(g, Ok, <<>>, <<>>)
    ELSE LET r == call_thunk(Head(thunks), g)
         IN IF r.resp.kind # "ok" THEN r
            ELSE LET rest == compose_views(Tail(thunks), r.groups)
                 IN Result(rest.groups, rest.resp, r.calls \o rest.calls,
                           IF rest.resp.kind = "ok" THEN r.data \o rest.data ELSE <<>>)

\* variant: the remove thunk stands before the add thunk
update_removes_first(g, user_group_id, delete, add) ==
    IF add = <<>> /\ delete = <<>>
    THEN Result(g, Err("nothing_to_do", 0), <<>>, <<>>)
    ELSE compose_views(<<Thunk("remove", user_group_id, delete),
                         Thunk("add", user_group_id, add)>>, g)

\* variant: "or" for "and" in the check of the two lists
update_needs_both_lists(g, user_group_id, delete, add) ==
    IF add = <<>> \/ delete = <<>>
    THEN Result(g, Err("nothing_to_do", 0), <<>>, <<>>)
    ELSE compose_views(<<Thunk("add", user_group_id, add),
                         Thunk("remove", user_group_id, delete)>>, g)

update_user_group_backend(g, user_group_id, delete, add) ==
    IF add = <<>> /\ delete = <<>>
    THEN Result(g, Err("nothing_to_do", 0), <<>>, <<>>)
    ELSE compose_views(<<Thunk("add", user_group_id, add),
                         Thunk("remove", user_group_id, delete)>>, g)

----------------------------------------------------------------------------
(* One request at a time *)

ForeignGroupRecord ==
    [exists |-> TRUE, realm |-> OtherRealm, name |-> "a", description |-> "x",
     members |-> {ForeignUser}]

InitGroups ==
    [id \in AllGroupIds |-> IF id = ForeignGroup THEN ForeignGroupRecord ELSE NoGroup]

\* a request: the endpoint and its inputs
Request(op, gid, name, description, add, delete) ==
    [op |-> op, gid |-> gid, name |-> name, description |-> description,
     add |-> add, delete |-> delete]

NoRequest == Request("none", 0, "", "", <<>>, <<>>)

\* the request served last: its inputs, the store before it and its outcome
Served(q, pre, r) ==
    [op |-> q.op, gid |-> q.gid, name |-> q.name, description |-> q.description,
     add |-> q.add, delete |-> q.delete, pre |-> pre,
     resp |-> r.resp, calls |-> r.calls, data |-> r.data]

NothingServed == Served(NoRequest, InitGroups, Result(InitGroups, Ok, <<>>, <<>>))

\* the member ids a listing shows for a group
ListedMembers(data, gid) ==
    UNION {Range(data[i].members) : i \in {j \in 1..Len(data) : data[j].id = gid}}

\* Observer of the sequence  add U to G; list; remove U from G; list.
RtIdle ==
    [stage |-> 0, gid |-> 0, uid |-> 0, before |-> InitGroups,
     seen |-> FALSE, removed |-> FALSE]

\* the request continues the sequence the observer follows
Continues(m, q) ==
    \/ m.stage \in {1, 3} /\ q.op = "list"
    \/ /\ m.stage = 2 /\ q.op = "update" /\ q.gid = m.gid
       /\ q.add = <<>> /\ q.delete = <<m.uid>>

\* the observer is off under Spec and on under ObservedSpec
RtOff == [RtIdle EXCEPT !.stage = -1]

RoundTrip(m, l) ==
    IF m.stage = -1 THEN m
    ELSE IF /\ l.op = "update" /\ Len(l.add) = 1 /\ l.delete = <<>> /\ l.resp.kind = "ok"
    THEN [stage |-> 1, gid |-> l.gid, uid |-> l.add[1], before |-> l.pre,
          seen |-> FALSE, removed |-> FALSE]
    ELSE IF Continues(m, l) /\ l.op = "list"
    THEN [m EXCEPT !.stage = @ + 1, !.seen = m.uid \in ListedMembers(l.data, m.gid)]
    ELSE IF Continues(m, l) /\ l.op = "update"
    THEN [m EXCEPT !.stage = 3, !.removed = l.resp.kind = "ok"]
    ELSE RtIdle

IdleRequest ==
    [pc |-> "idle", gid |-> 0, members |-> <<>>, user_profiles |-> <<>>,
     existing_member_ids |-> {}, resp |-> Ok]

Init ==
    /\ groups = InitGroups
    /\ last = NothingServed
    /\ rt = RtOff
    /\ req = [r \in Requests |-> IdleRequest]

\* the response of the request before is delivered
Ready == last = NothingServed

\* The handler serves a request with inputs q.  While the observer follows a
\* sequence, a request that does not continue it is served after the observer
\* has let go of the sequence (Forget).
Serve(q, r) ==
    LET l == Served(q, groups, r)
    IN /\ rt.stage \in {-1, 0} \/ Continues(rt, q)
       /\ groups' = r.groups
       /\ last' = l
       /\ rt' = RoundTrip(rt, l)
       /\ UNCHANGED req

\* POST user_groups/create, while the store has an id left in GroupIds for a
\* group that would be created
AddUserGroup ==
    /\ Ready
    /\ \E name \in Names, members \in IdLists, description \in Descriptions :
        /\ \/ FreeIds(groups) # {}
           \/ ~user_ids_to_users(members).ok
           \/ NameTaken(groups, name, 0)
        /\ Serve(Request("create", 0, name, description, members, <<>>),
                 add_user_group(groups, name, members, description))

\* GET user_groups
GetUserGroup ==
    /\ Ready
    /\ Serve(Request("list", 0, "", "", <<>>, <<>>), get_user_group(groups))

\* PATCH user_groups/<id>
EditUserGroup ==
    /\ Ready
    /\ \E gid \in AllGroupIds, name \in Names \cup {""},
       description \in Descriptions \cup {""} :
        Serve(Request("edit", gid, name, description, <<>>, <<>>),
              edit_user_group(groups, gid, name, description))

\* DELETE user_groups/<id>
DeleteUserGroup ==
    /\ Ready
    /\ \E gid \in AllGroupIds :
        Serve(Request("delete", gid, "", "", <<>>, <<>>), delete_user_group(groups, gid))

\* POST user_groups/<id>/members
UpdateUserGroupBackend ==
    /\ Ready
    /\ \E gid \in AllGroupIds, delete \in IdLists, add \in IdLists :
        Serve(Request("update", gid, "", "", add, delete),
              update_user_group_backend(groups, gid, delete, add))

\* the response has been delivered
Respond ==
    /\ last # NothingServed
    /\ last' = NothingServed
    /\ rt' = IF rt.stage = 4 THEN RtIdle ELSE rt
    /\ UNCHANGED <<groups, req>>

Next ==
    \/ AddUserGroup
    \/ GetUserGroup
    \/ EditUserGroup
    \/ DeleteUserGroup
    \/ UpdateUserGroupBackend
    \/ Respond

Spec == Init /\ [][Next]_vars

\* the same requests, with the observer of the round trip on
ObservedInit ==
    /\ groups = InitGroups
    /\ last = NothingServed
    /\ rt = RtIdle
    /\ req = [r \in Requests |-> IdleRequest]

\* the observer lets go of the sequence it follows
Forget ==
    /\ Ready
    /\ rt.stage \in 1..3
    /\ rt' = RtIdle
    /\ UNCHANGED <<groups, last, req>>

ObservedNext == Next \/ Forget

ObservedSpec == ObservedInit /\ [][ObservedNext]_vars

----------------------------------------------------------------------------
(* Concurrent executions of add_members_to_group_backend *)

\* stores in which the first group of the realm exists
RaceStores ==
    {[InitGroups EXCEPT ![1] = [exists |-> TRUE, realm |-> CallerRealm, name |-> "a",
                                description |-> "x", members |-> M]] :
        M \in SUBSET RealmUsers}

RaceInit ==
    /\ groups \in RaceStores
    /\ last = NothingServed
    /\ rt = RtOff
    /\ req = [r \in Requests |-> IdleRequest]

Finish(r, resp) ==
    req' = [req EXCEPT ![r].pc = "done", ![r].resp = resp]

\* the call of line 99, with the arguments of the request
Call(r) ==
    /\ req[r].pc = "idle"
    /\ \E gid \in AllGroupIds, members \in IdLists :
          req' = [req EXCEPT ![r].pc = "called", ![r].gid = gid, ![r].members = members]
    /\ UNCHANGED <<groups, last, rt>>

\* lines 114-118: the empty list, the group and the users
Resolve(r) ==
    /\ req[r].pc = "called"
    /\ IF req[r].members = <<>> THEN Finish(r, Ok)
       ELSE IF ~access_user_group_by_id(groups, req[r].gid)
       THEN Finish(r, Err("group_not_found", req[r].gid))
       ELSE LET u == user_ids_to_users(req[r].members)
            IN IF ~u.ok THEN Finish(r, Err("invalid_user", u.bad))
               ELSE req' = [req EXCEPT ![r].pc = "resolved", ![r].user_profiles = u.users]
    /\ UNCHANGED <<groups, last, rt>>

\* line 119: the members among the users, as the store has them now
ReadMemberships(r) ==
    /\ req[r].pc = "resolved"
    /\ req' = [req EXCEPT ![r].pc = "read",
                          ![r].existing_member_ids =
                              get_direct_memberships_of_users(groups[req[r].gid],
                                                              req[r].user_profiles)]
    /\ UNCHANGED <<groups, last, rt>>

\* lines 121-127: the check against what was read
CheckMembers(r) ==
    /\ req[r].pc = "read"
    /\ LET offender == first_existing_member(req[r].user_profiles,
                                             req[r].existing_member_ids)
       IN IF offender # 0 THEN Finish(r, Err("already_member", offender))
          ELSE req' = [req EXCEPT ![r].pc = "checked"]
    /\ UNCHANGED <<groups, last, rt>>

\* What the store does with a bulk insert.  A membership is unique per group
\* and user; for a user who became a member since the check, the store either
\* keeps the one membership or refuses the whole insert.
bulk_add_outcomes(g, gid, ids) ==
    IF Range(ids) \cap g[gid].members = {}
    THEN {[resp |-> Ok, groups |-> bulk_add_members_to_user_group(g, gid, ids)]}
    ELSE {[resp |-> Ok, groups |-> bulk_add_members_to_user_group(g, gid, ids)],
          [resp |-> Err("store_conflict", 0), groups |-> g]}

\* lines 129-131: the bulk insert
BulkAdd(r) ==
    /\ req[r].pc = "checked"
    /\ \E o \in bulk_add_outcomes(groups, req[r].gid, req[r].user_profiles) :
          /\ groups' = o.groups
          /\ Finish(r, o.resp)
    /\ UNCHANGED <<last, rt>>

RaceNext ==
    \E r \in Requests :
        \/ Call(r)
        \/ Resolve(r)
        \/ ReadMemberships(r)
        \/ CheckMembers(r)
        \/ BulkAdd(r)

RaceSpec == RaceInit /\ [][RaceNext]_vars

----------------------------------------------------------------------------
(* Properties of the served request *)

AllValid(ids) == Range(ids) \subseteq RealmUsers

Accessible(g, gid) == gid \in AllGroupIds /\ access_user_group_by_id(g, gid)

MembersBefore == last.pre[last.gid].members

IssuedCall(name) == name \in Range(last.calls)

\* the add sub-operation of the served membership update raises
AddFails ==
    \/ ~Accessible(last.pre, last.gid)
    \/ ~AllValid(last.add)
    \/ Range(last.add) \cap MembersBefore # {}

\* the store after the add sub-operation of the served membership update
AfterAdd ==
    IF last.add = <<>> \/ AddFails THEN last.pre
    ELSE [last.pre EXCEPT ![last.gid].members = @ \cup Range(last.add)]

\* the remove sub-operation of the served membership update ran
RemoveRan == last.op = "update" /\ last.delete # <<>> /\ (last.add = <<>> \/ ~AddFails)

\* C1: an add list whose users all resolve and of which at least one is already
\* a direct member of the group fails with the already-a-member error, naming
\* a user of the list who is a member, and leaves the membership of the group
\* (and the whole store) as it was: no other user of the list is added,
\* wherever the member stands in the list.
C1_AddOfMemberFailsAndAddsNobody ==
    (/\ last.op = "update"
     /\ Accessible(last.pre, last.gid)
     /\ AllValid(last.add)
     /\ Range(last.add) \cap MembersBefore # {})
    => /\ last.resp.kind = "already_member"
       /\ last.resp.arg \in Range(last.add) \cap MembersBefore
       /\ groups = last.pre
       /\ last.calls = <<>>

\* C1 witness: a served add of two users, the first not a member, the second a
\* member
C1_Witness ==
    /\ last.op = "update"
    /\ Len(last.add) = 2
    /\ Accessible(last.pre, last.gid)
    /\ last.add[1] \in RealmUsers /\ last.add[1] \notin MembersBefore
    /\ last.add[2] \in MembersBefore
    /\ last.resp.kind = "already_member"

\* C2 as stated: a remove list with any id that is not a direct member of the
\* group fails with the no-such-member error and changes nothing; a list whose
\* ids are all members removes exactly them.
C2_Original ==
    (RemoveRan /\ Accessible(AfterAdd, last.gid))
    => IF \E id \in Range(last.delete) : id \notin AfterAdd[last.gid].members
       THEN last.resp.kind = "no_such_member" /\ groups = AfterAdd
       ELSE /\ last.resp.kind = "ok"
            /\ groups = [AfterAdd EXCEPT ![last.gid].members = @ \ Range(last.delete)]

\* C2 amended: for a remove list whose ids all are users of the realm: if any
\* id is not a direct member of the group the request fails with the
\* no-such-member error, naming the first id of the list that is no member, and
\* the store is unchanged; if every id is a member exactly the ids of the list
\* are removed.  A list with an id that is no user of the realm fails with
\* the invalid-user error instead, the store unchanged as well.
C2_RemoveChecksAllThenRemoves ==
    (RemoveRan /\ Accessible(AfterAdd, last.gid))
    => IF ~AllValid(last.delete)
       THEN last.resp.kind = "invalid_user" /\ groups = AfterAdd
       ELSE IF \E id \in Range(last.delete) : id \notin AfterAdd[last.gid].members
       THEN /\ last.resp.kind = "no_such_member"
            /\ last.resp.arg = first_non_member(last.delete, AfterAdd[last.gid].members)
            /\ groups = AfterAdd
            /\ ~IssuedCall("remove_members_from_user_group")
       ELSE /\ last.resp.kind = "ok"
            /\ groups = [AfterAdd EXCEPT ![last.gid].members = @ \ Range(last.delete)]
            /\ IssuedCall("remove_members_from_user_group")

\* C2 witness: a served remove of two users of the realm, the first a member,
\* the second not
C2_Witness ==
    /\ RemoveRan /\ last.add = <<>>
    /\ Accessible(last.pre, last.gid)
    /\ Len(last.delete) = 2
    /\ last.delete[1] \in MembersBefore
    /\ last.delete[2] \in RealmUsers /\ last.delete[2] \notin MembersBefore
    /\ last.resp.kind = "no_such_member"
    /\ groups = last.pre

\* C3: in a membership update with both lists non-empty the add is checked and
\* applied before the remove is checked: if the add fails the remove is never
\* applied and the store is unchanged; if the add succeeds and the remove
\* fails the request fails and the added users remain members; if both succeed
\* the removal acts on the membership that already holds the added users.
C3_AddAppliedBeforeRemoveChecked ==
    (last.op = "update" /\ last.add # <<>> /\ last.delete # <<>>)
    => IF AddFails
       THEN /\ last.resp.kind \in {"group_not_found", "invalid_user", "already_member"}
            /\ groups = last.pre
            /\ last.calls = <<>>
       ELSE IF \/ ~AllValid(last.delete)
               \/ \E id \in Range(last.delete) :
                     id \notin MembersBefore \cup Range(last.add)
       THEN /\ last.resp.kind \in {"invalid_user", "no_such_member"}
            /\ groups = [last.pre EXCEPT ![last.gid].members = @ \cup Range(last.add)]
            /\ last.calls = <<"bulk_add_members_to_user_group">>
       ELSE /\ last.resp.kind = "ok"
            /\ groups = [last.pre EXCEPT ![last.gid].members =
                                            (@ \cup Range(last.add)) \ Range(last.delete)]
            /\ last.calls = <<"bulk_add_members_to_user_group",
                              "remove_members_from_user_group">>

\* C3 witness: the add succeeded, the remove failed, the request failed and the
\* group holds the added user
C3_Witness ==
    /\ last.op = "update" /\ last.add # <<>> /\ last.delete # <<>>
    /\ last.resp.kind = "no_such_member"
    /\ groups # last.pre
    /\ Range(last.add) \subseteq groups[last.gid].members
    /\ Range(last.add) \cap MembersBefore = {}

\* C4: after a successful add of user U to group G a listing shows U among the
\* members of G and no other membership has changed; a remove of U that follows
\* succeeds and leaves the store as it was before the add, and the listing
\* after it does not show U in G.
C4_AddListRemoveListRoundTrip ==
    /\ rt.stage >= 0
    /\ rt.stage >= 1 => rt.uid \notin rt.before[rt.gid].members
    /\ rt.stage \in {1, 2} =>
          groups = [rt.before EXCEPT ![rt.gid].members = @ \cup {rt.uid}]
    /\ rt.stage = 2 => rt.seen
    /\ rt.stage >= 3 => rt.removed /\ groups = rt.before
    /\ rt.stage = 4 => ~rt.seen

\* C4 witness: the four requests were served in sequence
C4_Witness ==
    /\ rt.stage = 4
    /\ last.op = "list"
    /\ rt.removed
    /\ rt.uid \notin ListedMembers(last.data, rt.gid)
    /\ \E i \in 1..Len(last.data) : last.data[i].id = rt.gid

\* C5: an edit with empty name and empty description fails with "No new data
\* supplied" whatever the group id (a group of the realm, an id without group,
\* a group of another realm) and whatever the group holds; no update call is
\* issued and the store is unchanged.
C5_EmptyEditFailsBeforeGroupLookup ==
    (last.op = "edit" /\ last.name = "" /\ last.description = "")
    => /\ last.resp.kind = "no_new_data"
       /\ last.calls = <<>>
       /\ groups = last.pre

\* C5 witness: the empty edit of a group id the caller cannot access
C5_Witness ==
    /\ last.op = "edit" /\ last.name = "" /\ last.description = ""
    /\ ~Accessible(last.pre, last.gid)
    /\ last.resp.kind = "no_new_data"

\* C6: the rename call is issued only when the supplied name differs from the
\* name of the group, the redescribe call only when the supplied description
\* differs from the description of the group; an edit with the current name
\* and a non-empty, different description issues the redescribe call alone,
\* leaves the name and sets the description.
C6_UpdateCallsOnlyOnDifference ==
    (last.op = "edit" /\ Accessible(last.pre, last.gid))
    => LET old == last.pre[last.gid]
       IN /\ IssuedCall("do_update_user_group_name") => last.name # old.name
          /\ IssuedCall("do_update_user_group_description")
                => last.description # old.description
          /\ (/\ last.name = old.name
              /\ last.description # ""
              /\ last.description # old.description)
             => /\ last.resp.kind = "ok"
                /\ last.calls = <<"do_update_user_group_description">>
                /\ groups = [last.pre EXCEPT ![last.gid].description = last.description]

\* C6 witness: an edit with the current, non-empty name and a new description
C6_Witness ==
    /\ last.op = "edit" /\ Accessible(last.pre, last.gid)
    /\ last.name # "" /\ last.name = last.pre[last.gid].name
    /\ last.description # "" /\ last.description # last.pre[last.gid].description
    /\ groups[last.gid].description = last.description
    /\ groups[last.gid].name = last.name

\* C7: a membership update with both lists empty fails with "Nothing to do"
\* for every group id, issues no call and leaves the store unchanged; with
\* exactly one list empty the request answers and acts as the sub-operation of
\* the other list does on its own.
C7_NothingToDoAndEmptySideNoOp ==
    last.op = "update"
    => /\ (last.add = <<>> /\ last.delete = <<>>)
          => /\ last.resp.kind = "nothing_to_do"
             /\ last.calls = <<>>
             /\ groups = last.pre
       /\ (last.add # <<>> /\ last.delete = <<>>)
          => LET r == add_members_to_group_backend(last.pre, last.gid, last.add)
             IN last.resp = r.resp /\ groups = r.groups /\ last.calls = r.calls
       /\ (last.add = <<>> /\ last.delete # <<>>)
          => LET r == remove_members_from_group_backend(last.pre, last.gid, last.delete)
             IN last.resp = r.resp /\ groups = r.groups /\ last.calls = r.calls

\* C7 witness: the empty update of a group id the caller cannot access
C7_Witness ==
    /\ last.op = "update" /\ last.add = <<>> /\ last.delete = <<>>
    /\ ~Accessible(last.pre, last.gid)
    /\ last.resp.kind = "nothing_to_do"

\* the entries of a listing that bear the name
ListedByName(listing, name) ==
    {i \in 1..Len(listing) : listing[i].name = name}

\* C8: a create with a name no group of the realm bears and member ids that
\* all are users of the realm succeeds, and the listing then holds one group of
\* that name, new in the listing, whose member list holds each supplied id
\* once and nothing else; a create with an id that is no user of the realm
\* fails and the listing is as before.
C8_CreateThenListed ==
    last.op = "create"
    => LET listing == user_groups_in_realm_serialized(groups)
           before == user_groups_in_realm_serialized(last.pre)
       IN /\ (AllValid(last.add) /\ ~NameTaken(last.pre, last.name, 0))
             => /\ last.resp.kind = "ok"
                /\ Len(listing) = Len(before) + 1
                /\ \E i \in 1..Len(listing) :
                      /\ ListedByName(listing, last.name) = {i}
                      /\ \A j \in 1..Len(before) : before[j].id # listing[i].id
                      /\ listing[i].description = last.description
                      /\ Range(listing[i].members) = Range(last.add)
                      /\ Len(listing[i].members) = Cardinality(Range(last.add))
          /\ ~AllValid(last.add)
             => /\ last.resp.kind = "invalid_user"
                /\ listing = before
                /\ groups = last.pre

\* C8 witness: a group created with one user given twice
C8_Witness ==
    /\ last.op = "create" /\ last.resp.kind = "ok"
    /\ Len(last.add) = 2 /\ last.add[1] = last.add[2]
    /\ \E i \in 1..Len(user_groups_in_realm_serialized(groups)) :
          /\ user_groups_in_realm_serialized(groups)[i].name = last.name
          /\ user_groups_in_realm_serialized(groups)[i].members = <<last.add[1]>>

\* C10 as stated: a successful edit that supplies only the description leaves
\* the name of the group, one that supplies only the name leaves the
\* description, and a non-empty name stays non-empty.
C10_OmittedFieldUnchanged ==
    (last.op = "edit" /\ last.resp.kind = "ok")
    => /\ (last.name = "" /\ last.description # "")
          => groups[last.gid].name = last.pre[last.gid].name
       /\ (last.description = "" /\ last.name # "")
          => groups[last.gid].description = last.pre[last.gid].description
       /\ last.pre[last.gid].name # "" => groups[last.gid].name # ""

----------------------------------------------------------------------------
(* Properties of the concurrent executions *)

PastCheck(r) == req[r].pc = "checked"

\* C9: no lock or transaction spans the check and the insert.  A request is
\* past the check on the strength of what it read alone: none of its users was
\* in the membership it read, whatever the membership is by now, and nothing
\* holds its insert back; a request whose insert the store accepted has its
\* users in the group.  The state in
\* which two requests for the same user and group are both past the check
\* while the user is not yet a member is reachable (C9_Witness).
C9_CheckRestsOnWhatWasRead ==
    \A r \in Requests :
        /\ PastCheck(r)
           => /\ req[r].user_profiles # <<>>
              /\ Accessible(groups, req[r].gid)
              /\ Range(req[r].user_profiles) \cap req[r].existing_member_ids = {}
              /\ ENABLED BulkAdd(r)
        /\ (req[r].pc = "done" /\ req[r].resp.kind = "ok" /\ req[r].members # <<>>)
           => Range(req[r].members) \subseteq groups[req[r].gid].members

\* C9 witness: both requests are past the check, for the same group and a
\* common user who is not a member of the group
C9_Witness ==
    /\ PastCheck("r1") /\ PastCheck("r2")
    /\ req["r1"].gid = req["r2"].gid
    /\ \E u \in Range(req["r1"].user_profiles) \cap Range(req["r2"].user_profiles) :
          u \notin groups[req["r1"].gid].members

====
